---- MODULE Spec2Model ----
(***************************************************************************)
(* Obscurity Engine: the batch search wrapper _yt (src/app.py) with its    *)
(* key rotation, the paging loop, the deduplication of the raw hits and    *)
(* the chunked detail resolution, over a nondeterministic search/detail    *)
(* provider.                                                               *)
(***************************************************************************)
EXTENDS Integers, Sequences, FiniteSets, TLC

VARIABLES
    nkeys,             \* len(keys): size of the key pool of this run
    svc_key,           \* pool index of the key the passed-in svc was built with
    nq,                \* len(qs): number of queries of the batch
    mpq,               \* target hit count per query
    pc,                \* position of _yt: "search", "dedup", "details", "done"
    i,                 \* 1-based index of the query being run
    fetched_count,
    next_page_token,
    retry,
    current_key_idx,
    active_svc,        \* pool index of the key active_svc is built with
    ai,                \* raw accumulated hits
    u,                 \* deduplicated hits
    u_chunks,
    chunk_idx,         \* number of chunks already resolved
    all_details,       \* identifier -> detail record
    all_keys_dead,     \* the 'ALL KEYS DEAD' error has been shown
    exhausted,         \* keys for which the provider has answered a quota error
    page_attempts,     \* search calls made so far for the current page
    qcalls,            \* per query: search calls issued
    qpages,            \* per query: distinct pages attempted
    qmarks,            \* per query: cursor advances (keys marked exhausted)
    qfails,            \* per query: search calls that did not succeed
    qquota,            \* per query: search calls the provider answered with a quota error
    qstart,            \* per query: cursor and key the query started on
    delivered,         \* every hit a successful page fetch has returned
    lastCall,          \* the most recent provider call and how it ended
    lastChunk,         \* the most recent detail chunk and what it contributed
    yt_results,        \* st.session_state.yt_results: the session collection
    last_merge,        \* the most recent write of the session collection
    call,              \* a library function being called on its own: name and arguments
    result,            \* what that call returned or raised
    cancel_requested   \* the caller has asked the running batch to stop

runVars == << nkeys, svc_key, nq, mpq, pc, i, fetched_count, next_page_token, retry,
           current_key_idx, active_svc, ai, u, u_chunks, chunk_idx, all_details,
           all_keys_dead, exhausted, page_attempts, qcalls, qpages, qmarks, qfails,
           qquota, qstart, delivered, lastCall, lastChunk >>
sessVars == << yt_results, last_merge >>
callVars == << call, result >>
envVars == << cancel_requested >>
vars == << runVars, sessVars, callVars, envVars >>

\* ------------------------------------------------------------------ bounds
MaxKeys == 2          \* largest key pool explored
MaxQueries == 2       \* longest query list explored
MaxPages == 2         \* pages the provider holds for one query
MaxTarget == 60       \* the larger of the two per-query targets explored
QueryShift == 30      \* identifiers of consecutive queries overlap from here on
MaxCalls == 3         \* search calls explored in one run
MaxHits == 120        \* longest hit list handed to the detail resolver on its own
MaxSessionIds == 2    \* distinct videos the session-level searches can return
MaxSessionHits == 2   \* longest result list of one session-level search
ManyViews == 20000    \* a view count above every ceiling explored
MaxBatch == 2         \* hits of a batch handed to enrichment on its own
MaxRawLen == 1        \* longest raw statistics text
MaxRows == 2          \* longest collection handed to the filter pipeline on its own
MaxActive == 2        \* most filter stages switched on besides the views ceiling
MaxBurstRows == 5     \* longest collection handed to the burst detector
MaxGroup == 10        \* most rows of one (channel, date) group handed to the classifier
MaxPrintRows == 9     \* most rows of a channel handed to the upload-pattern fingerprint
MaxClock == 120       \* latest publish time explored, in hours
MaxTitleLen == 3      \* longest title handed to the script detector, in characters

\* ------------------------------------------------------- program constants
PageCap == 50         \* min(50, mpq - fetched_count)
ChunkSize == 50       \* u[i:i + 50]
DetailBatch == 50     \* video_ids[i:i + 50]
ChaosTarget == 25     \* _yt(svc, qs, 25, ...) of render_chaos
MaxPerQuery == 500    \* the largest PER_Q the search form accepts
RabbitCeiling == 10000  \* filter_by_views(df, 10000) of _exec_q
EmptyId == 0          \* the empty identifier ""
NoToken == 0          \* next_page_token = None

Min(a, b) == IF a < b THEN a ELSE b

\* ------------------------------------------------------------------- hits
\* A search hit: the kind of its "id" object, its videoId and the query that
\* returned it (the opaque payload).
Hit(v, q) == [kind |-> "video", vid |-> v, src |-> q]
NoVideoHit(q) == [kind |-> "other", vid |-> EmptyId, src |-> q]

\* vid.get("videoId", "") of an "id" dict
VideoIdOf(it) == IF it.kind = "video" THEN it.vid ELSE EmptyId

_xv(items) == [k \in 1..Len(items) |-> VideoIdOf(items[k])]

\* ---------------------------------------------------------------- provider
\* What the remote search can answer for query q, page p, maxResults n.
IdBase(q) == (q - 1) * QueryShift
FullPage(q, p, n) == [j \in 1..n |-> Hit(IdBase(q) + p * PageCap + j, q)]
OddPage(q, p) == << Hit(IdBase(q) + p * PageCap + 1, q), NoVideoHit(q),
                    Hit(IdBase(q) + p * PageCap + 1, q) >>
Pages(q, p, n) == { << >>, FullPage(q, p, n) }
                     \cup (IF n >= 3 THEN { OddPage(q, p) } ELSE {})
NextTokens(p) == { NoToken } \cup (IF p + 1 < MaxPages THEN { p + 1 } ELSE {})
SearchResponses(q, p, n) ==
    { [status |-> s, items |-> << >>, next |-> NoToken] : s \in {"quota", "hard"} }
      \cup { [status |-> "ok", items |-> its, next |-> t] :
                 its \in Pages(q, p, n), t \in NextTokens(p) }

\* ---------------------------------------------------------- search_youtube
\* The wrapper never raises: any exception of the remote call becomes a
\* dict that carries an "error" entry.
search_youtube(resp) ==
    IF resp.status = "ok"
    THEN [items |-> resp.items, nextPageToken |-> resp.next, error |-> FALSE]
    ELSE [items |-> << >>, nextPageToken |-> NoToken, error |-> TRUE]

\* ---------------------------------------------------------------- _yt: search
\* What the try block raises for a returned dict r: an "error" entry is
\* re-raised as HttpError with status 403 and reason 'Quota'.
Raised(r) ==
    IF r.error THEN [raised |-> TRUE, status |-> 403, quota_word |-> TRUE]
    ELSE [raised |-> FALSE, status |-> 200, quota_word |-> FALSE]

is_quota(e) == e.status \in {403, 429} \/ e.quota_word

batch_size_uncapped == mpq - fetched_count
\* batch_size = min(50, mpq - fetched_count)
batch_size == Min(PageCap, mpq - fetched_count)
max_retries == nkeys + 1

NextKeyIdxStuck(idx) == idx
NextKeyIdxSkip(idx) == idx + 2
NextKeyIdx(idx) == idx + 1

\* if current_key_idx < len(keys)
HasKeyOffByOne(idx) == idx <= nkeys
HasKey(idx) == idx < nkeys

AccumulateOnlyWithCursor(acc, r) ==
    IF r.items # << >> /\ r.nextPageToken # NoToken THEN acc \o r.items ELSE acc
Accumulate(acc, r) == IF r.items # << >> THEN acc \o r.items ELSE acc

\* The loop heads re-evaluated once the retry loop is left with count fc and
\* cursor tok: next page of the same query, next query, or the end of the
\* search stage.
AfterPage(fc, tok) ==
    IF fc < mpq
    THEN [pc |-> "search", i |-> i, fetched_count |-> fc, next_page_token |-> tok]
    ELSE IF i < nq
    THEN [pc |-> "search", i |-> i + 1, fetched_count |-> 0, next_page_token |-> NoToken]
    ELSE [pc |-> "dedup", i |-> i, fetched_count |-> fc, next_page_token |-> tok]

Bump(f, q) == [f EXCEPT ![q] = @ + 1]

SearchCall(resp) ==
    /\ pc = "search"
    /\ LET r == search_youtube(resp)
           e == Raised(r)
           samePage(nx) == nx.pc = "search" /\ nx.i = i
                            /\ nx.next_page_token = next_page_token
           log(nx, kx) ==
               /\ lastCall' = [kind |-> "search", q |-> i, token |-> next_page_token,
                               size |-> batch_size, key |-> active_svc,
                               status |-> resp.status, cursor |-> current_key_idx,
                               key_was_exhausted |-> active_svc \in exhausted,
                               dead_before |-> current_key_idx >= nkeys,
                               nhits |-> Len(resp.items), ended |-> ~samePage(nx)]
               /\ exhausted' = IF resp.status = "quota"
                               THEN exhausted \cup {active_svc} ELSE exhausted
               /\ qcalls' = Bump(qcalls, i)
               /\ qpages' = IF page_attempts = 0 THEN Bump(qpages, i) ELSE qpages
               /\ qfails' = IF resp.status # "ok" THEN Bump(qfails, i) ELSE qfails
               /\ qquota' = IF resp.status = "quota" THEN Bump(qquota, i) ELSE qquota
               /\ qmarks' = IF kx # current_key_idx THEN Bump(qmarks, i) ELSE qmarks
               /\ page_attempts' = IF samePage(nx) THEN page_attempts + 1 ELSE 0
               /\ qstart' = IF nx.pc = "search" /\ nx.i # i
                            THEN [qstart EXCEPT ![nx.i] = [cursor |-> kx,
                                                          key |-> active_svc']]
                            ELSE qstart
               /\ delivered' = IF resp.status = "ok" THEN delivered \o resp.items
                               ELSE delivered
           go(nx) ==
               /\ pc' = nx.pc
               /\ i' = nx.i
               /\ fetched_count' = nx.fetched_count
               /\ next_page_token' = nx.next_page_token
       IN  IF ~e.raised
           THEN \* a page arrived
                LET fc1 == IF r.items # << >> THEN fetched_count + Len(r.items)
                           ELSE fetched_count
                    tok1 == IF r.items # << >> THEN r.nextPageToken
                            ELSE next_page_token
                    fc2 == IF r.items = << >> \/ tok1 = NoToken THEN mpq + 1 ELSE fc1
                    n == AfterPage(fc2, tok1)
                IN  /\ ai' = Accumulate(ai, r)
                    /\ go(n)
                    /\ retry' = 0
                    /\ UNCHANGED << current_key_idx, active_svc, all_keys_dead >>
                    /\ log(n, current_key_idx)
           ELSE IF is_quota(e)
           THEN LET idx == NextKeyIdx(current_key_idx)
                IN  IF HasKey(idx)
                    THEN \* swap to the next key and try the same page again
                         LET n == IF retry + 1 < max_retries
                                  THEN [pc |-> "search", i |-> i,
                                        fetched_count |-> fetched_count,
                                        next_page_token |-> next_page_token]
                                  ELSE AfterPage(fetched_count, next_page_token)
                         IN  /\ current_key_idx' = idx
                             /\ active_svc' = idx
                             /\ retry' = IF retry + 1 < max_retries THEN retry + 1 ELSE 0
                             /\ go(n)
                             /\ UNCHANGED << ai, all_keys_dead >>
                             /\ log(n, idx)
                    ELSE \* no key left
                         LET n == AfterPage(mpq + 1, next_page_token)
                         IN  /\ current_key_idx' = idx
                             /\ all_keys_dead' = TRUE
                             /\ retry' = 0
                             /\ go(n)
                             /\ UNCHANGED << ai, active_svc >>
                             /\ log(n, idx)
           ELSE \* an error that is no quota error ends the query
                LET n == AfterPage(mpq + 1, next_page_token)
                IN  /\ retry' = 0
                    /\ go(n)
                    /\ UNCHANGED << ai, current_key_idx, active_svc, all_keys_dead >>
                    /\ log(n, current_key_idx)
    /\ UNCHANGED << nkeys, svc_key, nq, mpq, u, u_chunks, chunk_idx, all_details,
                    lastChunk >>
    /\ UNCHANGED << sessVars, callVars, envVars >>

TotalCalls == LET RECURSIVE Sum(_)
                  Sum(q) == IF q = 0 THEN 0 ELSE qcalls[q] + Sum(q - 1)
              IN  Sum(nq)

Search ==
    /\ TotalCalls < MaxCalls
    /\ \E resp \in SearchResponses(i, next_page_token, batch_size) : SearchCall(resp)

\* ----------------------------------------------------------------- _yt: dedup
\* seen = set(); for it in ai: if vi and vi not in seen: seen.add(vi); u.append(it)
\* When the loop reaches hit k, seen holds the identifiers appended so far:
\* the non-empty identifiers of the hits before k.
SeenBefore(ids, k) == { ids[j] : j \in 1..(k - 1) } \ { EmptyId }

DedupKeepLast(items) ==
    LET ids == _xv(items)
        fresh(k) == ids[k] # EmptyId
                      /\ ids[k] \notin { ids[j] : j \in (k + 1)..Len(items) }
        kept == SelectSeq([k \in 1..Len(items) |-> k], fresh)
    IN  [n \in 1..Len(kept) |-> items[kept[n]]]
DedupLoop(items) ==
    LET ids == _xv(items)
        fresh(k) == ids[k] # EmptyId /\ ids[k] \notin SeenBefore(ids, k)
        kept == SelectSeq([k \in 1..Len(items) |-> k], fresh)
    IN  [n \in 1..Len(kept) |-> items[kept[n]]]

\* range(start, stop, step)
RECURSIVE Range(_, _, _)
Range(start, stop, step) ==
    IF start >= stop THEN << >> ELSE << start >> \o Range(start + step, stop, step)

\* s[a:b] of a Python list (a, b >= 0)
Slice(s, a, b) == [k \in 1..(Min(b, Len(s)) - a) |-> s[a + k]]

\* slices one element too long, so neighbouring chunks overlap
ChunksOverlap(s, size) ==
    LET starts == Range(0, Len(s), size)
    IN  [c \in 1..Len(starts) |-> Slice(s, starts[c], starts[c] + size + 1)]

\* [s[i:i + size] for i in range(0, len(s), size)]
Chunks(s, size) ==
    LET starts == Range(0, Len(s), size)
    IN  [c \in 1..Len(starts) |-> Slice(s, starts[c], starts[c] + size)]

Dedup ==
    /\ pc = "dedup"
    /\ u' = DedupLoop(ai)
    /\ u_chunks' = IF u' # << >> THEN Chunks(u', ChunkSize) ELSE << >>
    /\ pc' = IF u' # << >> THEN "details" ELSE "done"
    /\ UNCHANGED << nkeys, svc_key, nq, mpq, i, fetched_count, next_page_token, retry,
                    current_key_idx, active_svc, ai, chunk_idx, all_details,
                    all_keys_dead, exhausted, page_attempts, qcalls, qpages, qmarks,
                    qfails, qquota, qstart, delivered, lastCall, lastChunk >>
    /\ UNCHANGED << sessVars, callVars, envVars >>

\* --------------------------------------------------------- get_video_details
\* What the remote videos().list can answer for one batch of identifiers:
\* every record, every record but the first (a video that has vanished), or
\* an exception.
DetailResponses == {"all", "partial", "quota", "hard"}
DetailFails == {"quota", "hard"}
ProviderDetails(batch, resp) ==
    IF resp = "all" THEN [k \in 1..Len(batch) |-> [id |-> batch[k]]]
    ELSE IF resp = "partial" THEN [k \in 1..(Len(batch) - 1) |-> [id |-> batch[k + 1]]]
    ELSE << >>

\* The wrapper batches by 50 and never raises: a failed batch is logged and
\* contributes nothing.
RECURSIVE DetailsLoop(_, _, _)
DetailsLoop(video_ids, starts, resp) ==
    IF starts = << >> THEN << >>
    ELSE LET batch == Slice(video_ids, Head(starts), Head(starts) + DetailBatch)
         IN  ProviderDetails(batch, resp) \o DetailsLoop(video_ids, Tail(starts), resp)

get_video_details(video_ids, resp) ==
    [raised |-> FALSE,
     det |-> DetailsLoop(video_ids, Range(0, Len(video_ids), DetailBatch), resp),
     calls |-> Len(Range(0, Len(video_ids), DetailBatch)),
     largest |-> Min(Len(video_ids), DetailBatch)]

\* all_details.update({d['id']: d for d in det})
DictUpdate(d, det) ==
    LET ids == { det[k].id : k \in 1..Len(det) }
        last(x) == CHOOSE k \in 1..Len(det) :
                       /\ det[k].id = x
                       /\ \A m \in (k + 1)..Len(det) : det[m].id # x
    IN  [x \in DOMAIN d \cup ids |-> IF x \in ids THEN det[last(x)] ELSE d[x]]

NonEmpty(v) == v # EmptyId

\* -------------------------------------------------------------- _yt: details
ResolveChunk(resp, resp2) ==
    /\ pc = "details"
    /\ LET idx == chunk_idx + 1
           chunk == u_chunks[idx]
           vs == SelectSeq(_xv(chunk), NonEmpty)
           first == get_video_details(vs, resp)
           may_retry == current_key_idx + 1 < nkeys
           second == get_video_details(vs, resp2)
           det == IF ~first.raised THEN first.det
                  ELSE IF may_retry THEN second.det ELSE << >>
           retried == first.raised /\ may_retry
       IN  /\ current_key_idx' = IF retried THEN current_key_idx + 1 ELSE current_key_idx
           /\ active_svc' = IF retried THEN current_key_idx + 1 ELSE active_svc
           /\ all_details' = IF det # << >> THEN DictUpdate(all_details, det)
                             ELSE all_details
           /\ chunk_idx' = idx
           /\ pc' = IF idx = Len(u_chunks) THEN "done" ELSE "details"
           /\ exhausted' = exhausted
                             \cup (IF resp = "quota" /\ first.calls > 0
                                   THEN {active_svc} ELSE {})
                             \cup (IF retried /\ resp2 = "quota" /\ second.calls > 0
                                   THEN {active_svc'} ELSE {})
           /\ lastCall' = [kind |-> "details", q |-> idx, token |-> NoToken,
                           size |-> first.largest,
                           key |-> IF retried THEN active_svc' ELSE active_svc,
                           status |-> IF retried THEN resp2 ELSE resp,
                           cursor |-> current_key_idx,
                           key_was_exhausted |->
                               \/ active_svc \in exhausted
                               \/ retried /\ active_svc' \in exhausted,
                           dead_before |-> current_key_idx >= nkeys,
                           nhits |-> Len(det), ended |-> TRUE]
           /\ lastChunk' = [idx |-> idx, ids |-> vs, failed |-> resp \in DetailFails,
                            next_key |-> may_retry, retried |-> retried,
                            calls |-> first.calls + (IF retried THEN second.calls ELSE 0),
                            det |-> det]
    /\ UNCHANGED << nkeys, svc_key, nq, mpq, i, fetched_count, next_page_token, retry,
                    ai, u, u_chunks, all_keys_dead, page_attempts, qcalls, qpages,
                    qmarks, qfails, qquota, qstart, delivered >>
    /\ UNCHANGED << sessVars, callVars, envVars >>

Resolve ==
    \E resp \in DetailResponses :
        \E resp2 \in IF get_video_details(<< >>, resp).raised THEN DetailResponses
                     ELSE {"all"} :
            ResolveChunk(resp, resp2)

\* ------------------------------------------------------------ specification
NoCall == [kind |-> "none", q |-> 0, token |-> NoToken, size |-> 0, key |-> 0,
           status |-> "none", cursor |-> 0, key_was_exhausted |-> FALSE,
           dead_before |-> FALSE, nhits |-> 0, ended |-> FALSE]
NoChunk == [idx |-> 0, ids |-> << >>, failed |-> FALSE, next_key |-> FALSE,
            retried |-> FALSE, calls |-> 0, det |-> << >>]
NoMerge == [op |-> "none", was_empty |-> TRUE]
NoFunction == [fn |-> "none"]
NoResult == [done |-> FALSE]
\* no library function is being called on its own
InitCall == call = NoFunction /\ result = NoResult
\* nobody has asked for anything to stop
InitEnv == cancel_requested = FALSE
\* the session as the page is first drawn with no cached results
InitSession == yt_results = << >> /\ last_merge = NoMerge

Init ==
    /\ nkeys \in 1..MaxKeys
    /\ svc_key \in 0..(nkeys - 1)
    /\ nq \in 1..MaxQueries
    /\ mpq \in {ChaosTarget, MaxTarget}
    /\ pc = "search"
    /\ i = 1
    /\ fetched_count = 0
    /\ next_page_token = NoToken
    /\ retry = 0
    /\ current_key_idx = 0
    /\ active_svc = svc_key
    /\ ai = << >>
    /\ u = << >>
    /\ u_chunks = << >>
    /\ chunk_idx = 0
    /\ all_details = << >>
    /\ all_keys_dead = FALSE
    /\ exhausted = {}
    /\ page_attempts = 0
    /\ qcalls = [q \in 1..nq |-> 0]
    /\ qpages = [q \in 1..nq |-> 0]
    /\ qmarks = [q \in 1..nq |-> 0]
    /\ qfails = [q \in 1..nq |-> 0]
    /\ qquota = [q \in 1..nq |-> 0]
    /\ qstart = [q \in 1..nq |-> [cursor |-> 0, key |-> svc_key]]
    /\ delivered = << >>
    /\ lastCall = NoCall
    /\ lastChunk = NoChunk
    /\ InitSession
    /\ InitEnv
    /\ InitCall

Next == Search \/ Dedup \/ Resolve

Spec == Init /\ [][Next]_vars

\* ------------------------------------------------- a caller who wants to stop
\* _yt takes no cancellation argument and reads no flag: the wish of the
\* caller to stop a running batch is state of the caller alone, which may
\* change between any two steps of the batch.
Cancel ==
    /\ pc # "done"
    /\ ~cancel_requested
    /\ cancel_requested' = TRUE
    /\ UNCHANGED << runVars, sessVars, callVars >>

NextCancel == Search \/ Dedup \/ Resolve \/ Cancel
SpecCancel == Init /\ [][NextCancel]_vars

\* -------------------------------------------- the detail resolver on its own
\* The state at the head of the dedup loop of a one-query run whose pages
\* delivered n distinct hits without any failure.
InitResolve ==
    /\ nkeys \in 1..MaxKeys
    /\ svc_key \in 0..(nkeys - 1)
    /\ nq = 1
    /\ mpq = MaxPerQuery
    /\ pc = "dedup"
    /\ i = 1
    /\ \E n \in 0..MaxHits :
          /\ ai = FullPage(1, 0, n)
          /\ delivered = ai
          /\ qcalls = [q \in 1..1 |-> Len(Range(0, n, PageCap)) + (IF n = 0 THEN 1 ELSE 0)]
    /\ qpages = qcalls
    /\ fetched_count = mpq + 1
    /\ next_page_token = NoToken
    /\ retry = 0
    /\ current_key_idx = 0
    /\ active_svc = svc_key
    /\ u = << >>
    /\ u_chunks = << >>
    /\ chunk_idx = 0
    /\ all_details = << >>
    /\ all_keys_dead = FALSE
    /\ exhausted = {}
    /\ page_attempts = 0
    /\ qmarks = [q \in 1..1 |-> 0]
    /\ qfails = [q \in 1..1 |-> 0]
    /\ qquota = [q \in 1..1 |-> 0]
    /\ qstart = [q \in 1..1 |-> [cursor |-> 0, key |-> svc_key]]
    /\ lastCall = NoCall
    /\ lastChunk = NoChunk
    /\ InitSession
    /\ InitEnv
    /\ InitCall

NextResolve == Dedup \/ Resolve

SpecResolve == InitResolve /\ [][NextResolve]_vars

\* ---------------------------------------------------- the session collection
\* a view band that knows only the top step
ViewBandFlat(views) == IF views = 0 THEN 30 ELSE 0

\* View band of compute_weirdness_score, the score the rows below carry.
ViewBand(views) ==
    IF views = 0 THEN 30
    ELSE IF views <= 3 THEN 27
    ELSE IF views <= 10 THEN 22
    ELSE IF views <= 50 THEN 15
    ELSE IF views <= 200 THEN 10
    ELSE IF views <= 1000 THEN 5
    ELSE 0

\* One row of parse_video_data / scraper_parse_results, cut down to the
\* columns the session operations read.
Row(v, views, tag) ==
    [video_id |-> v, views |-> views, weirdness_score |-> ViewBand(views), src |-> tag]

\* viewCount of the detail record of identifier v; a hit without a detail
\* record gets int(stats.get("viewCount", 0)) = 0
ViewsOf(vm, v) == IF v \in DOMAIN vm THEN vm[v] ELSE 0

\* parse_video_data: one row per item, in item order
parse_video_data(items, vm, tag) ==
    [k \in 1..Len(items) |-> Row(VideoIdOf(items[k]), ViewsOf(vm, VideoIdOf(items[k])), tag)]

\* df.drop_duplicates(subset=["video_id"]): the first row of every video_id
drop_duplicates(df) ==
    LET first(k) == \A j \in 1..(k - 1) : df[j].video_id # df[k].video_id
        kept == SelectSeq([k \in 1..Len(df) |-> k], first)
    IN  [n \in 1..Len(kept) |-> df[kept[n]]]

filter_by_views(df, max_views) ==
    LET ok(r) == r.views <= max_views
    IN  IF df = << >> THEN df ELSE SelectSeq(df, ok)

\* df.sort_values("weirdness_score", ascending=False): equal scores come out
\* in an order pandas does not fix; ties are kept in order or reversed.
sort_values(df, reverse_ties) ==
    LET n == Len(df)
        rank(k) == Cardinality({ j \in 1..n : df[j].weirdness_score > df[k].weirdness_score })
                     + Cardinality({ j \in 1..n :
                           /\ df[j].weirdness_score = df[k].weirdness_score
                           /\ IF reverse_ties THEN j > k ELSE j < k })
                     + 1
    IN  [m \in 1..n |-> df[CHOOSE k \in 1..n : rank(k) = m]]

\* pd.concat([ex, df]).drop_duplicates(...) if not ex.empty else df
MergeInto(ex, df) == IF ex # << >> THEN drop_duplicates(ex \o df) ELSE df

\* What a session-level search can return.
RECURSIVE SeqsUpTo(_, _)
SeqsUpTo(S, n) ==
    IF n = 0 THEN { << >> }
    ELSE LET shorter == SeqsUpTo(S, n - 1)
         IN  shorter \cup { Append(t, x) : t \in shorter, x \in S }
SessionHits == { Hit(v, 1) : v \in 1..MaxSessionIds } \cup { NoVideoHit(1) }
SessionHitLists == SeqsUpTo(SessionHits, MaxSessionHits)
ViewMaps == [1..MaxSessionIds -> {0, ManyViews}]
\* the scraper's videos: yt-dlp lines, every one with an id
ScrapeLists == SeqsUpTo({ Hit(v, 1) : v \in 1..MaxSessionIds }, MaxSessionHits)

\* The frame _yt returns for raw hits `hits`: one row per deduplicated hit.
YtFrame(hits, vm) == parse_video_data(DedupLoop(hits), vm, "api")

\* render_search with a query to run: the API toggle, the scraper toggle,
\* whether a service could be built, the view ceiling, what the two sources
\* return.
RenderSearch(syt, ssc, svc, mv, hits, shits, vm, rt) ==
    LET df0 == filter_by_views(YtFrame(hits, vm), mv)
        df == IF df0 # << >> THEN sort_values(df0, rt) ELSE df0
        after_api == IF syt THEN (IF svc THEN df ELSE << >>)
                     ELSE IF ~ssc THEN << >> ELSE yt_results
        sdf0 == filter_by_views(drop_duplicates(parse_video_data(shits, vm, "scrape")), mv)
        sdf == IF sdf0 # << >> THEN sort_values(sdf0, rt) ELSE sdf0
        after_scrape == IF ssc /\ shits # << >> THEN MergeInto(after_api, sdf)
                        ELSE after_api
    IN  /\ yt_results' = after_scrape
        /\ last_merge' = [op |-> "render_search", was_empty |-> after_api = << >>]
        /\ UNCHANGED << runVars, callVars, envVars >>

\* _exec_q: one rabbit-hole query, through the API when a service can be
\* built and through the scraper otherwise.
ExecQ(svc, hits, shits, vm) ==
    LET df == IF svc THEN filter_by_views(parse_video_data(hits, vm, "api"), RabbitCeiling)
              ELSE parse_video_data(shits, vm, "scrape")
        ran == IF svc THEN hits # << >> ELSE shits # << >>
    IN  /\ yt_results' = IF ran THEN MergeInto(yt_results, df) ELSE yt_results
        /\ last_merge' = [op |-> "exec_q", was_empty |-> yt_results = << >>]
        /\ UNCHANGED << runVars, callVars, envVars >>

\* A source that is switched off, or has no service, is not asked.
SearchPage ==
    \E syt, ssc, rt \in BOOLEAN, mv \in {0, ManyViews}, vm \in ViewMaps :
      \E svc \in (IF syt THEN BOOLEAN ELSE {FALSE}) :
        \E hits \in (IF syt /\ svc THEN SessionHitLists ELSE { << >> }),
           shits \in (IF ssc THEN ScrapeLists ELSE { << >> }) :
            RenderSearch(syt, ssc, svc, mv, hits, shits, vm, rt)

RabbitHole ==
    \E svc \in BOOLEAN, vm \in ViewMaps :
        \E hits \in (IF svc THEN SessionHitLists ELSE { << >> }),
           shits \in (IF svc THEN { << >> } ELSE ScrapeLists) :
            ExecQ(svc, hits, shits, vm)

\* no batch search is running
IdleRun ==
    /\ nkeys = 1 /\ svc_key = 0 /\ nq = 1 /\ mpq = ChaosTarget
    /\ pc = "idle" /\ i = 1 /\ fetched_count = 0 /\ next_page_token = NoToken
    /\ retry = 0 /\ current_key_idx = 0 /\ active_svc = 0
    /\ ai = << >> /\ u = << >> /\ u_chunks = << >> /\ chunk_idx = 0
    /\ all_details = << >> /\ all_keys_dead = FALSE /\ exhausted = {}
    /\ page_attempts = 0
    /\ qcalls = [q \in 1..1 |-> 0] /\ qpages = [q \in 1..1 |-> 0]
    /\ qmarks = [q \in 1..1 |-> 0] /\ qfails = [q \in 1..1 |-> 0]
    /\ qquota = [q \in 1..1 |-> 0]
    /\ qstart = [q \in 1..1 |-> [cursor |-> 0, key |-> 0]]
    /\ delivered = << >> /\ lastCall = NoCall /\ lastChunk = NoChunk

InitIdle ==
    /\ IdleRun
    /\ InitSession
    /\ InitEnv
    /\ InitCall

NextSession == SearchPage \/ RabbitHole

SpecSession == InitIdle /\ [][NextSession]_vars

\* --------------------------------------------------------- the merge on its own
\* The expression that render_search (scraper results) and _exec_q store in
\* the session collection, applied to a collection ex and new rows df.
SessionRows ==
    { Row(v, views, tag) : v \in 1..MaxSessionIds, views \in { 0, ManyViews },
                          tag \in { "api", "scrape" } }
SessionFrames == SeqsUpTo(SessionRows, MaxSessionHits)

Merge ==
    /\ call.fn = "merge"
    /\ ~result.done
    /\ result' = [done |-> TRUE, df |-> MergeInto(call.ex, call.df)]
    /\ UNCHANGED << call, runVars, sessVars, envVars >>

InitMerge ==
    /\ IdleRun
    /\ InitSession
    /\ InitEnv
    /\ \E ex \in SessionFrames, df \in SessionFrames :
          call = [fn |-> "merge", ex |-> ex, df |-> df]
    /\ result = NoResult

SpecMerge == InitMerge /\ [][Merge]_vars

\* ------------------------------------------------- enrichment of raw records
\* The statistics of a detail record arrive as text.
Digits == { "0", "7" }
Chars == Digits \cup { "x" }
DigitValue(c) == IF c = "0" THEN 0 ELSE 7
RECURSIVE ParseDigits(_)
ParseDigits(t) ==
    IF t = << >> THEN 0
    ELSE ParseDigits(SubSeq(t, 1, Len(t) - 1)) * 10 + DigitValue(t[Len(t)])

Absent == [present |-> FALSE, text |-> << >>]
RawStats == { Absent } \cup { [present |-> TRUE, text |-> t] : t \in SeqsUpTo(Chars, MaxRawLen) }

\* int(stats.get(name, 0)): ValueError unless the text is a number
int_(raw) ==
    IF ~raw.present THEN [raised |-> FALSE, val |-> 0]
    ELSE IF raw.text # << >> /\ \A k \in 1..Len(raw.text) : raw.text[k] \in Digits
         THEN [raised |-> FALSE, val |-> ParseDigits(raw.text)]
         ELSE [raised |-> TRUE, val |-> 0]

\* What videos().list can return for one identifier: nothing, or a record
\* that may lack its id and whose statistics are any text.
Missing == [returned |-> FALSE]
DetailRecords(v) ==
    { Missing } \cup
    { [returned |-> TRUE, has_id |-> h, id |-> v, viewCount |-> vc, likeCount |-> lc] :
          h \in BOOLEAN, vc \in RawStats, lc \in RawStats }
Returned(d) == d.returned

\* {d['id']: d for d in det}: KeyError when a record has no id
KeyErrorIn(det) == \E k \in 1..Len(det) : ~det[k].has_id

\* the detail record parse_video_data finds for identifier v
DetailOf(det, v) ==
    IF \E k \in 1..Len(det) : det[k].id = v
    THEN det[CHOOSE k \in 1..Len(det) : det[k].id = v /\ \A m \in (k + 1)..Len(det) : det[m].id # v]
    ELSE Missing

\* first item, in item order, whose statistics do not parse
ValueErrorIn(items, det) ==
    \E k \in 1..Len(items) :
        LET d == DetailOf(det, VideoIdOf(items[k]))
        IN  d.returned /\ (int_(d.viewCount).raised \/ int_(d.likeCount).raised)

ParsedViews(items, det) ==
    LET ids == { VideoIdOf(items[k]) : k \in 1..Len(items) }
        got == { v \in ids : DetailOf(det, v).returned }
    IN  [v \in got |-> int_(DetailOf(det, v).viewCount).val]

\* _yt from the detail answer on: all_details.update(...), then
\* parse_video_data(u, det_list); neither is inside a try block.
EnrichBatch(items, det) ==
    IF det # << >> /\ KeyErrorIn(det)
    THEN [done |-> TRUE, raised |-> TRUE, error |-> "KeyError", rows |-> << >>]
    ELSE IF ValueErrorIn(items, det)
    THEN [done |-> TRUE, raised |-> TRUE, error |-> "ValueError", rows |-> << >>]
    ELSE [done |-> TRUE, raised |-> FALSE, error |-> "none",
          rows |-> parse_video_data(items, ParsedViews(items, det), "api")]

Enrich ==
    /\ call.fn = "enrich"
    /\ ~result.done
    /\ result' = EnrichBatch(call.items, call.det)
    /\ UNCHANGED << call, runVars, sessVars, envVars >>

InitEnrich ==
    /\ IdleRun
    /\ InitSession
    /\ InitEnv
    /\ \E n \in 0..MaxBatch :
         \E answer \in [1..n -> UNION { DetailRecords(v) : v \in 1..n }] :
            /\ \A k \in 1..n : answer[k] \in DetailRecords(k)
            /\ call = [fn |-> "enrich", items |-> FullPage(1, 0, n),
                       det |-> SelectSeq(answer, Returned)]
    /\ result = NoResult

SpecEnrich == InitEnrich /\ [][Enrich]_vars

\* ----------------------------------------------------- compute_weirdness_score
\* Scores are whole numbers of points (every increment is one, so
\* round(score, 1) changes nothing); title_entropy is in hundredths and
\* views_per_day in ten-thousandths.
Max(a, b) == IF a > b THEN a ELSE b

ViewsValues == { -1, 0, 8, 50, 150, 500, 2000 }
AgeValues == { 0, 400, 2000, 6000 }
\* len(title) and title_entropy of a title
TitleShapes == { [len |-> 3, entropy |-> 100], [len |-> 8, entropy |-> 100],
                 [len |-> 8, entropy |-> 300], [len |-> 8, entropy |-> 500] }
Titles == [default_filename : BOOLEAN, numbers_only : BOOLEAN, all_caps : BOOLEAN,
           shape : TitleShapes]
\* description text and the desc_length passed with it
Descriptions == { [empty |-> TRUE, desc_length |-> 0], [empty |-> FALSE, desc_length |-> 10],
                  [empty |-> FALSE, desc_length |-> 30] }
DurationValues == { 0, 1, 5, 8000 }
Engagements == { [likes |-> 0, comments |-> 0], [likes |-> 1, comments |-> 0] }
VpdValues == { 0, 300, 10000 }
BoosterHits == { 0, 1, 3 }

TemporalBand(age_days, views) ==
    IF age_days > 5475 /\ views <= 10 THEN 18
    ELSE IF age_days > 3650 /\ views <= 10 THEN 15
    ELSE IF age_days > 1825 /\ views <= 10 THEN 12
    ELSE IF age_days > 730 /\ views <= 10 THEN 8
    ELSE IF age_days > 365 /\ views <= 5 THEN 5
    ELSE 0

TitleBand(t) ==
    (IF t.default_filename THEN 10 ELSE 0)
    + (IF t.numbers_only THEN 5 ELSE 0)
    + (IF t.all_caps /\ t.shape.len > 5 THEN 3 ELSE 0)
    + (IF t.shape.entropy < 200 /\ t.shape.len > 3 THEN 3
       ELSE IF t.shape.entropy > 450 THEN 2 ELSE 0)

DescriptionBand(d, no_tags) ==
    (IF d.empty \/ d.desc_length < 5 THEN 5
     ELSE IF d.desc_length < 20 THEN 3 ELSE 0)
    + (IF no_tags THEN 3 ELSE 0)

DurationBand(duration_seconds) ==
    IF 0 < duration_seconds /\ duration_seconds < 3 THEN 4
    ELSE IF 0 < duration_seconds /\ duration_seconds < 10 THEN 3
    ELSE IF duration_seconds > 7200 THEN 4
    ELSE IF duration_seconds > 3600 THEN 3
    ELSE 0

GhostBand(e, views) ==
    IF e.likes = 0 /\ e.comments = 0
    THEN (IF views <= 10 THEN 10 ELSE IF views <= 100 THEN 5 ELSE 0)
    ELSE 0

VpdBand(age_days, vpd) ==
    IF age_days > 365 /\ vpd < 100 THEN 4
    ELSE IF age_days > 365 /\ vpd < 500 THEN 2
    ELSE 0

GeoBand(has_location) == IF has_location THEN 3 ELSE 0

KeywordBand(weird_hits) == Min(4, weird_hits * 2)

Bands(in) ==
    [views |-> ViewBand(in.views),
     temporal |-> TemporalBand(in.age_days, in.views),
     title |-> TitleBand(in.title),
     description |-> DescriptionBand(in.description, in.no_tags),
     duration |-> DurationBand(in.duration_seconds),
     ghost |-> GhostBand(in.engagement, in.views),
     vpd |-> VpdBand(in.age_days, in.views_per_day),
     geo |-> GeoBand(in.has_location),
     keywords |-> KeywordBand(in.weird_hits)]

BandSum(b) ==
    b.views + b.temporal + b.title + b.description + b.duration + b.ghost + b.vpd
      + b.geo + b.keywords

NoClamp(score) == score
\* min(100.0, max(0.0, round(score, 1)))
Clamp(score) == Min(100, Max(0, score))

compute_weirdness_score(in) == Clamp(BandSum(Bands(in)))

\* One call, and the same call once more.
Score ==
    /\ call.fn = "compute_weirdness_score"
    /\ ~result.done
    /\ \E d \in Descriptions, no_tags, has_location \in BOOLEAN, dur \in DurationValues,
          e \in Engagements, vpd \in VpdValues, hits \in BoosterHits :
         LET in == [views |-> call.views, age_days |-> call.age_days, title |-> call.title,
                    description |-> d, no_tags |-> no_tags, duration_seconds |-> dur,
                    engagement |-> e, views_per_day |-> vpd, has_location |-> has_location,
                    weird_hits |-> hits]
         IN  result' = [done |-> TRUE, bands |-> Bands(in),
                        score |-> compute_weirdness_score(in),
                        again |-> compute_weirdness_score(in)]
    /\ UNCHANGED << call, runVars, sessVars, envVars >>

InitScore ==
    /\ IdleRun
    /\ InitSession
    /\ InitEnv
    /\ \E v \in ViewsValues, a \in AgeValues, t \in Titles :
          call = [fn |-> "compute_weirdness_score", views |-> v, age_days |-> a, title |-> t]
    /\ result = NoResult

SpecScore == InitScore /\ [][Score]_vars

\* --------------------------------------------------------------------- _pf
\* Three records that between them pass and fail every stage; the *_hit
\* columns say whether the text a text stage looks for occurs in the field.
FilterRecords ==
    { [video_id |-> 1, views |-> 0, duration_seconds |-> 5, is_default_filename |-> TRUE,
       weirdness_score |-> 80, likes |-> 0, comments |-> 0, has_geo |-> TRUE,
       title_hit |-> TRUE, title_length |-> 8, all_caps_title |-> TRUE, desc_length |-> 0,
       tag_count |-> 0, has_links_in_desc |-> FALSE, definition |-> "sd",
       licensed_content |-> FALSE, views_per_day |-> 0, age_days |-> 4000,
       upload_hour |-> 3, description_hit |-> TRUE, channel_hit |-> TRUE],
      [video_id |-> 2, views |-> 5, duration_seconds |-> 60, is_default_filename |-> FALSE,
       weirdness_score |-> 40, likes |-> 0, comments |-> 2, has_geo |-> FALSE,
       title_hit |-> TRUE, title_length |-> 40, all_caps_title |-> FALSE, desc_length |-> 5,
       tag_count |-> 3, has_links_in_desc |-> FALSE, definition |-> "hd",
       licensed_content |-> FALSE, views_per_day |-> 1, age_days |-> 400,
       upload_hour |-> -1, description_hit |-> FALSE, channel_hit |-> TRUE],
      [video_id |-> 3, views |-> 5000, duration_seconds |-> 4000, is_default_filename |-> FALSE,
       weirdness_score |-> 10, likes |-> 9, comments |-> 0, has_geo |-> FALSE,
       title_hit |-> FALSE, title_length |-> 12, all_caps_title |-> FALSE, desc_length |-> 200,
       tag_count |-> 0, has_links_in_desc |-> TRUE, definition |-> "hd",
       licensed_content |-> TRUE, views_per_day |-> 50, age_days |-> 100,
       upload_hour |-> 20, description_hit |-> FALSE, channel_hit |-> FALSE] }

DistinctIds(df) == \A j, k \in 1..Len(df) : j # k => df[j].video_id # df[k].video_id
Collections == { df \in SeqsUpTo(FilterRecords, MaxRows) : DistinctIds(df) }

\* The stages in the order _pf runs them.
StageOrder ==
    << "views", "mnv", "duration", "od", "mw", "gh", "go", "tc", "tr", "st", "ac", "nd",
       "nt", "nl", "sd", "ul", "mvp", "age", "hr", "dc", "cf" >>

\* What can be switched on: every stage but the views ceiling, the text
\* stages with a text that is a valid pattern or one that does not compile.
Switches ==
    { "mnv", "duration", "od", "mw", "gh", "go", "tc", "tc_bad", "tr", "tr_bad", "st", "ac",
      "nd", "nt", "nl", "sd", "ul", "mvp", "age", "hr", "dc", "dc_bad", "cf", "cf_bad" }

RECURSIVE SubsetsUpTo(_, _)
SubsetsUpTo(S, n) ==
    IF n = 0 THEN { {} }
    ELSE LET smaller == SubsetsUpTo(S, n - 1)
         IN  smaller \cup { T \cup { x } : T \in smaller, x \in S }

Text(on, name) ==
    IF name \in on THEN "ok" ELSE IF (name \o "_bad") \in on THEN "(" ELSE ""

\* the keyword arguments render_search builds (fkw), defaults where a
\* switch is off
Kw(on) ==
    [mnv |-> IF "mnv" \in on THEN 1 ELSE 0,
     mnd |-> IF "duration" \in on THEN 10 ELSE 0,
     mxd |-> 999999,
     od |-> "od" \in on,
     mw |-> IF "mw" \in on THEN 50 ELSE 0,
     gh |-> "gh" \in on,
     go |-> "go" \in on,
     tc |-> Text(on, "tc"),
     tr |-> Text(on, "tr"),
     st |-> "st" \in on,
     ac |-> "ac" \in on,
     nd |-> "nd" \in on,
     nt |-> "nt" \in on,
     nl |-> "nl" \in on,
     sd |-> "sd" \in on,
     ul |-> "ul" \in on,
     mvp |-> IF "mvp" \in on THEN 1 ELSE 1000,
     mna |-> IF "age" \in on THEN 365 ELSE 0,
     mxa |-> 99999,
     hr |-> IF "hr" \in on THEN << 0, 12 >> ELSE << 0, 23 >>,
     dc |-> Text(on, "dc"),
     cf |-> Text(on, "cf")]

\* the `if` in front of a stage in _pf
StageRuns(stage, kw) ==
    CASE stage = "views" -> TRUE
      [] stage = "mnv" -> kw.mnv > 0
      [] stage = "duration" -> kw.mnd > 0 \/ kw.mxd < 999999
      [] stage = "od" -> kw.od
      [] stage = "mw" -> kw.mw > 0
      [] stage = "gh" -> kw.gh
      [] stage = "go" -> kw.go
      [] stage = "tc" -> kw.tc # ""
      [] stage = "tr" -> kw.tr # ""
      [] stage = "st" -> kw.st
      [] stage = "ac" -> kw.ac
      [] stage = "nd" -> kw.nd
      [] stage = "nt" -> kw.nt
      [] stage = "nl" -> kw.nl
      [] stage = "sd" -> kw.sd
      [] stage = "ul" -> kw.ul
      [] stage = "mvp" -> kw.mvp < 1000
      [] stage = "age" -> kw.mna > 0 \/ kw.mxa < 99999
      [] stage = "hr" -> kw.hr # << 0, 23 >>
      [] stage = "dc" -> kw.dc # ""
      [] stage = "cf" -> kw.cf # ""

\* str.contains(text, case=False): the text is compiled as a pattern
Compiles(text) == text # "("
Contains(hit, text) == hit

\* the row mask of a stage
StageKeeps(stage, mv, kw, r) ==
    CASE stage = "views" -> r.views <= mv
      [] stage = "mnv" -> r.views >= kw.mnv
      [] stage = "duration" -> r.duration_seconds >= kw.mnd /\ r.duration_seconds <= kw.mxd
      [] stage = "od" -> r.is_default_filename
      [] stage = "mw" -> r.weirdness_score >= kw.mw
      [] stage = "gh" -> r.likes = 0 /\ r.comments = 0
      [] stage = "go" -> r.has_geo
      [] stage = "tc" -> Contains(r.title_hit, kw.tc)
      [] stage = "tr" -> Contains(r.title_hit, kw.tr)
      [] stage = "st" -> r.title_length <= 15
      [] stage = "ac" -> r.all_caps_title
      [] stage = "nd" -> r.desc_length < 10
      [] stage = "nt" -> r.tag_count = 0
      [] stage = "nl" -> ~r.has_links_in_desc
      [] stage = "sd" -> r.definition = "sd"
      [] stage = "ul" -> ~r.licensed_content
      [] stage = "mvp" -> r.views_per_day <= kw.mvp
      [] stage = "age" -> r.age_days >= kw.mna /\ r.age_days <= kw.mxa
      [] stage = "hr" -> r.upload_hour >= kw.hr[1] /\ r.upload_hour <= kw.hr[2]
      [] stage = "dc" -> Contains(r.description_hit, kw.dc)
      [] stage = "cf" -> Contains(r.channel_hit, kw.cf)

StageText(stage, kw) ==
    CASE stage = "tc" -> kw.tc
      [] stage = "tr" -> kw.tr
      [] stage = "dc" -> kw.dc
      [] stage = "cf" -> kw.cf
      [] OTHER -> ""

\* the rows a boolean mask keeps, last first
MaskReversed(df, mask) ==
    LET on(k) == mask[k]
        kept == SelectSeq([k \in 1..Len(df) |-> k], on)
    IN  [n \in 1..Len(kept) |-> df[kept[Len(kept) + 1 - n]]]

\* df[mask].copy()
Mask(df, mask) ==
    LET on(k) == mask[k]
        kept == SelectSeq([k \in 1..Len(df) |-> k], on)
    IN  [n \in 1..Len(kept) |-> df[kept[n]]]

\* One filter function: an empty frame is returned as it is; a text that
\* does not compile raises, except in filter_title_regex, which returns
\* the frame unchanged.
filter_stage(stage, df, mv, kw) ==
    LET mask == [k \in 1..Len(df) |-> StageKeeps(stage, mv, kw, df[k])]
    IN  IF df = << >> THEN [raised |-> FALSE, df |-> df]
        ELSE IF stage \in { "tc", "tr", "dc", "cf" } /\ ~Compiles(StageText(stage, kw))
        THEN (IF stage = "tr" THEN [raised |-> FALSE, df |-> df]
              ELSE [raised |-> TRUE, df |-> << >>])
        ELSE [raised |-> FALSE, df |-> Mask(df, mask)]

\* the stages of `order` one after the other, each behind its `if`
RECURSIVE RunStages(_, _, _, _)
RunStages(order, df, mv, kw) ==
    IF order = << >> THEN [raised |-> FALSE, df |-> df]
    ELSE LET step == IF StageRuns(Head(order), kw)
                     THEN filter_stage(Head(order), df, mv, kw)
                     ELSE [raised |-> FALSE, df |-> df]
         IN  IF step.raised THEN step
             ELSE RunStages(Tail(order), step.df, mv, kw)

\* the stages that run under kw, in the order of _pf
ActiveStages(kw) ==
    LET runs(stage) == StageRuns(stage, kw)
    IN  SelectSeq(StageOrder, runs)

\* every order in which the stages of `stages` can be run
Orders(stages) ==
    LET n == Len(stages)
        perms == { f \in [1..n -> 1..n] : \A j, k \in 1..n : j # k => f[j] # f[k] }
    IN  { [k \in 1..n |-> stages[f[k]]] : f \in perms }

_pf(df, mv, kw) ==
    IF df = << >> THEN [raised |-> FALSE, df |-> df]
    ELSE RunStages(StageOrder, df, mv, kw)

Filter ==
    /\ call.fn = "_pf"
    /\ ~result.done
    /\ LET r == _pf(call.df, call.mv, call.kw)
       IN  result' = [done |-> TRUE, raised |-> r.raised, df |-> r.df,
                      input_after |-> call.df]
    /\ UNCHANGED << call, runVars, sessVars, envVars >>

InitFilter ==
    /\ IdleRun
    /\ InitSession
    /\ InitEnv
    /\ \E df \in Collections, mv \in { 0, ManyViews }, on \in SubsetsUpTo(Switches, MaxActive) :
          call = [fn |-> "_pf", df |-> df, mv |-> mv, on |-> on, kw |-> Kw(on)]
    /\ result = NoResult

SpecFilter == InitFilter /\ [][Filter]_vars

\* ---------------------------------------------------------- detect_upload_bursts
\* A publish timestamp: a day and an hour, or text that is no timestamp.
NotADate == [valid |-> FALSE, day |-> 0, hour |-> 0]
Published == { [valid |-> TRUE, day |-> 1, hour |-> 0], [valid |-> TRUE, day |-> 1, hour |-> 23],
               [valid |-> TRUE, day |-> 2, hour |-> 0] }
NaT == 0
\* pd.to_datetime(published, errors="coerce").dt.date
pub_date(published) == IF published.valid THEN published.day ELSE NaT

\* channels 1 and 2; a row without a timestamp is drawn for channel 1 only
BurstRowChoices ==
    { [channel |-> c, published |-> p] : c \in 1..2, p \in Published }
      \cup { [channel |-> 1, published |-> NotADate] }
Thresholds == { 1, 3, 5 }

\* the rows of one (channel, pub_date) group, in frame order
Group(df, channel, date) ==
    LET in_group(r) == r.channel = channel /\ pub_date(r.published) = date
    IN  SelectSeq(df, in_group)

\* groupby(["channel", "pub_date"]): the keys in sorted order, rows whose
\* date is NaT left out
GroupKeys(df) ==
    LET keys == { << df[k].channel, pub_date(df[k].published) >> : k \in 1..Len(df) }
        dated == { key \in keys : key[2] # NaT }
        before(a, b) == a[1] < b[1] \/ (a[1] = b[1] /\ a[2] < b[2])
        rank(key) == Cardinality({ other \in dated : before(other, key) }) + 1
    IN  [n \in 1..Cardinality(dated) |-> CHOOSE key \in dated : rank(key) = n]

MeetsThresholdStrict(size, threshold) == size > threshold
MeetsThreshold(size, threshold) == size >= threshold

BurstEvent(df, key) ==
    LET group == Group(df, key[1], key[2])
    IN  [channel |-> key[1], date |-> key[2], upload_count |-> Len(group),
         video_ids |-> [k \in 1..Len(group) |-> group[k].video_id]]

\* sort_values("upload_count", ascending=False): equal counts in either order
SortByCount(bursts, reverse_ties) ==
    LET n == Len(bursts)
        rank(k) == Cardinality({ j \in 1..n : bursts[j].upload_count > bursts[k].upload_count })
                     + Cardinality({ j \in 1..n :
                           /\ bursts[j].upload_count = bursts[k].upload_count
                           /\ IF reverse_ties THEN j > k ELSE j < k })
                     + 1
    IN  [m \in 1..n |-> bursts[CHOOSE k \in 1..n : rank(k) = m]]

detect_upload_bursts(df, threshold, reverse_ties) ==
    LET keys == GroupKeys(df)
        all == [n \in 1..Len(keys) |-> BurstEvent(df, keys[n])]
        big(e) == MeetsThreshold(e.upload_count, threshold)
        bursts == SelectSeq(all, big)
    IN  IF df = << >> THEN << >>
        ELSE IF bursts # << >> THEN SortByCount(bursts, reverse_ties) ELSE << >>

Bursts ==
    /\ call.fn = "detect_upload_bursts"
    /\ ~result.done
    /\ \E reverse_ties \in BOOLEAN :
          result' = [done |-> TRUE,
                     events |-> detect_upload_bursts(call.df, call.threshold, reverse_ties)]
    /\ UNCHANGED << call, runVars, sessVars, envVars >>

InitBursts ==
    /\ IdleRun
    /\ InitSession
    /\ InitEnv
    /\ \E n \in 0..MaxBurstRows, threshold \in Thresholds :
         \E rows \in [1..n -> BurstRowChoices] :
            call = [fn |-> "detect_upload_bursts", threshold |-> threshold,
                    df |-> [k \in 1..n |-> [video_id |-> k, channel |-> rows[k].channel,
                                            published |-> rows[k].published]]]
    /\ result = NoResult

SpecBursts == InitBursts /\ [][Bursts]_vars

\* ------------------------------------------------------------ _classify_burst
\* Titles of a burst group, one of each shape the classifier tells apart.
BurstTitles == << "IMG_0001", "test", "a", "rec", "my screen", "my holiday" >>
\* len(t)
TitleLen(t) ==
    CASE t = "IMG_0001" -> 8 [] t = "test" -> 4 [] t = "a" -> 1 [] t = "rec" -> 3
      [] t = "my screen" -> 9 [] t = "my holiday" -> 10
\* detect_default_filename(title): ^IMG[\s_-]\d{3,} and ^test$ match
detect_default_filename(t) == t \in { "IMG_0001", "test" }
\* "screen" in str(t).lower() or "rec" in str(t).lower()
ScreenOrRec(t) == t \in { "rec", "my screen" }

\* n copies of x
Replicate(x, n) == [k \in 1..n |-> x]
\* the rows of a group: title and the is_default_filename column that
\* parse_video_data filled from the title
GroupRow(t) == [title |-> t, is_default_filename |-> detect_default_filename(t)]

\* default_count > len(titles) * 0.7; the product is the float nearest to
\* 7n/10, which is the integer itself when 10 divides n
MoreThanSeventyPercent(default_count, n) == 10 * default_count > 7 * n

_classify_burst(group) ==
    LET titles == [k \in 1..Len(group) |-> group[k].title]
        default_count == Cardinality({ k \in 1..Len(group) : group[k].is_default_filename })
    IN  IF MoreThanSeventyPercent(default_count, Len(titles)) THEN "Camera Dump"
        ELSE IF \A k \in 1..Len(titles) : TitleLen(titles[k]) < 5 THEN "Bot/Auto"
        ELSE IF \E k \in 1..Len(titles) : ScreenOrRec(titles[k]) THEN "Screen Recordings"
        ELSE "Bulk Upload"

Classify ==
    /\ call.fn = "_classify_burst"
    /\ ~result.done
    /\ result' = [done |-> TRUE, burst_type |-> _classify_burst(call.group)]
    /\ UNCHANGED << call, runVars, sessVars, envVars >>

\* a group of 1..MaxGroup rows, the titles of one shape next to each other
InitClassify ==
    /\ IdleRun
    /\ InitSession
    /\ InitEnv
    /\ \E n1 \in 0..MaxGroup :
        \E n2 \in 0..(MaxGroup - n1) :
         \E n3 \in 0..(MaxGroup - n1 - n2) :
          \E n4 \in 0..(MaxGroup - n1 - n2 - n3) :
           \E n5 \in 0..(MaxGroup - n1 - n2 - n3 - n4) :
            \E n6 \in 0..(MaxGroup - n1 - n2 - n3 - n4 - n5) :
              /\ n1 + n2 + n3 + n4 + n5 + n6 >= 1
              /\ call = [fn |-> "_classify_burst",
                         group |-> Replicate(GroupRow(BurstTitles[1]), n1)
                                     \o Replicate(GroupRow(BurstTitles[2]), n2)
                                     \o Replicate(GroupRow(BurstTitles[3]), n3)
                                     \o Replicate(GroupRow(BurstTitles[4]), n4)
                                     \o Replicate(GroupRow(BurstTitles[5]), n5)
                                     \o Replicate(GroupRow(BurstTitles[6]), n6)]
    /\ result = NoResult

SpecClassify == InitClassify /\ [][Classify]_vars

\* ------------------------------------------------- fingerprint_upload_pattern
\* Rows of one channel, one of each shape the fingerprint tells apart: title,
\* duration, upload hour (UnknownHour when the timestamp did not parse) and
\* the default-filename column.
UnknownHour == 0 - 1
PrintRows ==
    << [title |-> "IMG_0001", duration_seconds |-> 10, upload_hour |-> 3,
        is_default_filename |-> TRUE],
       [title |-> "test", duration_seconds |-> 10, upload_hour |-> 3,
        is_default_filename |-> TRUE],
       [title |-> "x123", duration_seconds |-> 20, upload_hour |-> UnknownHour,
        is_default_filename |-> FALSE],
       [title |-> "a", duration_seconds |-> 30, upload_hour |-> 4,
        is_default_filename |-> FALSE],
       [title |-> "my holiday", duration_seconds |-> 40, upload_hour |-> 4,
        is_default_filename |-> FALSE],
       [title |-> "my trip 2019", duration_seconds |-> 50, upload_hour |-> 5,
        is_default_filename |-> FALSE] >>
\* re.match(r'^.*\d{3,}.*$', str(t))
Numbered(t) == t \in { "IMG_0001", "x123", "my trip 2019" }
\* len(str(t)) < 5
ShortTitle(t) == t \in { "test", "x123", "a" }

\* Counter(values).most_common(1)[0][1]
MostCommonCount(values) ==
    LET count(v) == Cardinality({ k \in 1..Len(values) : values[k] = v })
    IN  CHOOSE c \in 1..Len(values) :
            /\ \E k \in 1..Len(values) : count(values[k]) = c
            /\ \A k \in 1..Len(values) : count(values[k]) <= c

\* count > len(titles) * 0.5
MoreThanHalf(count, n) == 2 * count > n
\* count / n * 100 > 80
MoreThanEightyPercent(count, n) == 100 * count > 80 * n

\* min(result["score"], 100)
CapScore(score) == Min(score, 100)

Pattern(score) ==
    IF score >= 60 THEN "BOT/AUTOMATED"
    ELSE IF score >= 30 THEN "SEMI-AUTOMATED"
    ELSE "HUMAN"

\* the signals in the order of the code, as [flag, points] pairs
PrintSignals(df) ==
    LET n == Len(df)
        titles == [k \in 1..n |-> df[k].title]
        numbered == Cardinality({ k \in 1..n : Numbered(titles[k]) })
        short == Cardinality({ k \in 1..n : ShortTitle(titles[k]) })
        durs == { df[k].duration_seconds : k \in 1..n }
        known(r) == r.upload_hour >= 0
        known_rows == SelectSeq(df, known)
        hours == [k \in 1..Len(known_rows) |-> known_rows[k].upload_hour]
        defaults == Cardinality({ k \in 1..n : df[k].is_default_filename })
    IN  << [flag |-> "REPEATED_TITLE", on |-> MostCommonCount(titles) > 3, points |-> 25],
           [flag |-> "SEQUENTIAL_NUMBERS", on |-> MoreThanHalf(numbered, n), points |-> 20],
           [flag |-> "SHORT_TITLES", on |-> MoreThanHalf(short, n), points |-> 15],
           [flag |-> "SAME_DURATION", on |-> Cardinality(durs) <= 3 /\ n > 5, points |-> 20],
           [flag |-> "SAME_HOUR",
            on |-> hours # << >> /\ MoreThanEightyPercent(MostCommonCount(hours), Len(hours)),
            points |-> 15],
           [flag |-> "DEFAULT_NAMES", on |-> MoreThanEightyPercent(defaults, n), points |-> 15] >>

RECURSIVE SumPoints(_, _)
SumPoints(signals, k) ==
    IF k = 0 THEN 0
    ELSE SumPoints(signals, k - 1) + (IF signals[k].on THEN signals[k].points ELSE 0)

fingerprint_upload_pattern(df) ==
    IF df = << >> THEN [pattern |-> "unknown", confidence |-> 0]
    ELSE LET signals == PrintSignals(df)
             triggered(s) == s.on
             raised_flags == SelectSeq(signals, triggered)
             score == CapScore(SumPoints(signals, Len(signals)))
         IN  [total_videos |-> Len(df),
              flags |-> [k \in 1..Len(raised_flags) |-> raised_flags[k].flag],
              score |-> score,
              pattern |-> Pattern(score)]

Fingerprint ==
    /\ call.fn = "fingerprint_upload_pattern"
    /\ ~result.done
    /\ result' = [done |-> TRUE, print |-> fingerprint_upload_pattern(call.df)]
    /\ UNCHANGED << call, runVars, sessVars, envVars >>

\* a channel of 0..MaxPrintRows rows, the rows of one shape next to each other
InitFingerprint ==
    /\ IdleRun
    /\ InitSession
    /\ InitEnv
    /\ \E n1 \in 0..MaxPrintRows :
        \E n2 \in 0..(MaxPrintRows - n1) :
         \E n3 \in 0..(MaxPrintRows - n1 - n2) :
          \E n4 \in 0..(MaxPrintRows - n1 - n2 - n3) :
           \E n5 \in 0..(MaxPrintRows - n1 - n2 - n3 - n4) :
            \E n6 \in 0..(MaxPrintRows - n1 - n2 - n3 - n4 - n5) :
              call = [fn |-> "fingerprint_upload_pattern",
                      df |-> Replicate(PrintRows[1], n1) \o Replicate(PrintRows[2], n2)
                               \o Replicate(PrintRows[3], n3) \o Replicate(PrintRows[4], n4)
                               \o Replicate(PrintRows[5], n5) \o Replicate(PrintRows[6], n6)]
    /\ result = NoResult

SpecFingerprint == InitFingerprint /\ [][Fingerprint]_vars

\* --------------------------------------------- parse_video_data: age and rate
\* Times are whole hours on one clock. A publish timestamp is a time or text
\* that is no timestamp.
DayHours == 24
NoTimestamp == [valid |-> FALSE, at |-> 0]
PublishTimes == { [valid |-> TRUE, at |-> t] : t \in 0..MaxClock } \cup { NoTimestamp }
\* datetime.now() of the three runs explored
NowValues == { 48, 60, 71 }
RateViews == { 0, 1, 7, 1000 }

\* timedelta.days: the whole days of a difference, rounded down
Days(hours) == hours \div DayHours
\* strptime of the API's publishedAt keeps the time of day; strptime of the
\* scraper's upload_date[:8] gives the start of the day
published_dt(published, source) ==
    IF source = "scraper" THEN (published.at \div DayHours) * DayHours ELSE published.at

\* (datetime.now() - published_dt).days, 0 when the text does not parse
age_days(published, now, source) ==
    IF ~published.valid THEN 0 ELSE Days(now - published_dt(published, source))

\* round(x, 4) of the ratio n / d, in ten-thousandths
Round4(n, d) == (2 * 10000 * n + d) \div (2 * d)
\* vpd = round(views / max(age_days, 1), 4)
views_per_day(views, age) == Round4(views, Max(age, 1))

Age ==
    /\ call.fn = "age_days"
    /\ ~result.done
    /\ LET age == age_days(call.published, call.now, call.source)
       IN  result' = [done |-> TRUE, age_days |-> age,
                      views_per_day |-> views_per_day(call.views, age)]
    /\ UNCHANGED << call, runVars, sessVars, envVars >>

InitAge ==
    /\ IdleRun
    /\ InitSession
    /\ InitEnv
    /\ \E published \in PublishTimes, now \in NowValues, views \in RateViews,
          source \in { "api", "scraper" } :
            call = [fn |-> "age_days", published |-> published, now |-> now,
                    views |-> views, source |-> source]
    /\ result = NoResult

SpecAge == InitAge /\ [][Age]_vars

\* -------------------------------------------------------- detect_title_scripts
\* A title is a sequence of code points. The characters explored: H, e-acute,
\* a Han character, an Arabic, a Cyrillic, a Devanagari, a Thai and a Hebrew
\* letter, a space and a fullwidth A.
TitleChars == { 72, 233, 20320, 1576, 1076, 2309, 3585, 1488, 32, 65313 }

InRanges(c, ranges) == \E r \in ranges : r[1] <= c /\ c <= r[2]
\* re.search(r'[a-zA-Z]', title)
LatinRanges == { << 65, 90 >>, << 97, 122 >> }
\* SCRIPT_PATTERNS, in dictionary order
SCRIPT_PATTERNS ==
    << [name |-> "CJK", ranges |-> { << 19968, 40959 >>, << 12352, 12543 >>, << 44032, 55215 >> }],
       [name |-> "Arabic", ranges |-> { << 1536, 1791 >>, << 1872, 1919 >> }],
       [name |-> "Cyrillic", ranges |-> { << 1024, 1279 >> }],
       [name |-> "Devanagari", ranges |-> { << 2304, 2431 >> }],
       [name |-> "Thai", ranges |-> { << 3584, 3711 >> }],
       [name |-> "Hebrew", ranges |-> { << 1424, 1535 >> }] >>

\* pattern.search(title)
SearchRanges(title, ranges) == \E k \in 1..Len(title) : InRanges(title[k], ranges)

detect_title_scripts(title) ==
    LET has_latin == SearchRanges(title, LatinRanges)
        found(p) == SearchRanges(title, p.ranges)
        others == SelectSeq(SCRIPT_PATTERNS, found)
    IN  (IF has_latin THEN << "Latin" >> ELSE << >>)
          \o [k \in 1..Len(others) |-> others[k].name]

\* find_language_mismatches: the two flags of one title
is_mixed_script(scripts) == Len(scripts) > 1
is_non_latin(scripts) ==
    (\A k \in 1..Len(scripts) : scripts[k] # "Latin") /\ Len(scripts) > 0

Scripts ==
    /\ call.fn = "detect_title_scripts"
    /\ ~result.done
    /\ LET scripts == detect_title_scripts(call.title)
       IN  result' = [done |-> TRUE, title_scripts |-> scripts,
                      is_mixed_script |-> is_mixed_script(scripts),
                      is_non_latin |-> is_non_latin(scripts)]
    /\ UNCHANGED << call, runVars, sessVars, envVars >>

InitScripts ==
    /\ IdleRun
    /\ InitSession
    /\ InitEnv
    /\ \E n \in 0..MaxTitleLen :
         \E title \in [1..n -> TitleChars] :
            call = [fn |-> "detect_title_scripts", title |-> title]
    /\ result = NoResult

SpecScripts == InitScripts /\ [][Scripts]_vars

\* ---------------------------------------------------- detect_metadata_anomalies
\* OCEAN_COORDS + EXTREME_LOCATIONS, in list order
OCEAN_COORDS ==
    << [name |-> "Mid-Atlantic", lat_range |-> << -30, 30 >>, lng_range |-> << -50, -20 >>],
       [name |-> "Mid-Pacific", lat_range |-> << -30, 30 >>, lng_range |-> << -170, -130 >>],
       [name |-> "Indian Ocean", lat_range |-> << -30, 0 >>, lng_range |-> << 60, 90 >>] >>
EXTREME_LOCATIONS ==
    << [name |-> "Antarctica", lat_range |-> << -90, -60 >>, lng_range |-> << -180, 180 >>],
       [name |-> "Arctic", lat_range |-> << 75, 90 >>, lng_range |-> << -180, 180 >>],
       [name |-> "Sahara Desert", lat_range |-> << 18, 30 >>, lng_range |-> << -5, 30 >>] >>

\* a tag: its fixed text and the number formatted into it (0 when none is)
Tag(text, n) == [text |-> text, n |-> n]

InBoxOpen(loc, lat, lng) ==
    /\ loc.lat_range[1] < lat /\ lat < loc.lat_range[2]
    /\ loc.lng_range[1] < lng /\ lng < loc.lng_range[2]
\* loc["lat_range"][0] <= lat <= loc["lat_range"][1] and the same for lng
InBox(loc, lat, lng) ==
    /\ loc.lat_range[1] <= lat /\ lat <= loc.lat_range[2]
    /\ loc.lng_range[1] <= lng /\ lng <= loc.lng_range[2]

detect_location_anomalies(lat, lng) ==
    LET boxes == OCEAN_COORDS \o EXTREME_LOCATIONS
        hit(loc) == InBox(loc, lat, lng)
        hits == SelectSeq(boxes, hit)
    IN  [k \in 1..Len(hits) |-> hits[k].name]

\* a location: None, or a latitude and a longitude
NoLocation == [present |-> FALSE, lat |-> 0, lng |-> 0]
Locations ==
    { NoLocation } \cup
    { [present |-> TRUE, lat |-> p[1], lng |-> p[2]] :
        p \in { << 0, 0 >>, << 0, -30 >>, << 30, -20 >>, << 31, -20 >>, << -75, 100 >>, << 20, 0 >> } }
AnomalyRows ==
    [ location : Locations, age_days : { 5475, 5476 }, definition : { "hd", "sd" },
      upload_hour : { -1, 3, 5, 6 }, title_len : { 200, 201 },
      desc_word_count : { 500, 501 }, views : { 4, 5, 9, 10 }, tag_count : { 20, 21 },
      duration_seconds : { 0, 1, 2, 43200, 43201 } ]

detect_metadata_anomalies(row) ==
    LET geo == IF row.location.present
               THEN detect_location_anomalies(row.location.lat, row.location.lng)
               ELSE << >>
    IN  [k \in 1..Len(geo) |-> Tag("GEO_ANOMALY:" \o geo[k], 0)]
        \o (IF row.age_days > 5475 /\ row.definition = "hd"
            THEN << Tag("ERA_MISMATCH:HD_before_HD_era", 0) >> ELSE << >>)
        \o (IF 3 <= row.upload_hour /\ row.upload_hour <= 5
            THEN << Tag("TIME_ANOMALY:uploaded_3-5AM", 0) >> ELSE << >>)
        \o (IF row.title_len > 200
            THEN << Tag("TITLE_ANOMALY:very_long", row.title_len) >> ELSE << >>)
        \o (IF row.desc_word_count > 500 /\ row.views < 10
            THEN << Tag("DESC_ANOMALY:huge_desc_no_views", 0) >> ELSE << >>)
        \o (IF row.tag_count > 20 /\ row.views < 5
            THEN << Tag("TAG_ANOMALY:many_tags_no_views", 0) >> ELSE << >>)
        \o (IF row.duration_seconds = 1 THEN << Tag("DUR_ANOMALY:1_second", 0) >>
            ELSE IF row.duration_seconds > 43200
            THEN << Tag("DUR_ANOMALY:marathon", row.duration_seconds \div 3600) >>
            ELSE << >>)

Anomalies ==
    /\ call.fn = "detect_metadata_anomalies"
    /\ ~result.done
    /\ result' = [done |-> TRUE, anomalies |-> detect_metadata_anomalies(call.row)]
    /\ UNCHANGED << call, runVars, sessVars, envVars >>

InitAnomalies ==
    /\ IdleRun
    /\ InitSession
    /\ InitEnv
    /\ \E row \in AnomalyRows : call = [fn |-> "detect_metadata_anomalies", row |-> row]
    /\ result = NoResult

SpecAnomalies == InitAnomalies /\ [][Anomalies]_vars

\* ------------------------------------------------ parse_video_data: location
\* loc.get("latitude"), loc.get("longitude"): None or a number
Null == [null |-> TRUE, v |-> 0]
Number(v) == [null |-> FALSE, v |-> v]
Latitudes == { Null } \cup { Number(v) : v \in { -90, -45, -1, 0, 1, 45, 60, 90 } }
Longitudes == { Null } \cup { Number(v) : v \in { -180, -90, -1, 0, 1, 90, 120, 180 } }
\* the detail of a record: no recordingDetails.location, or one with the two
\* coordinates
NoRecording == [location |-> FALSE, latitude |-> Null, longitude |-> Null]
Recordings ==
    { NoRecording } \cup
    { [location |-> TRUE, latitude |-> lat, longitude |-> lng] :
        lat \in Latitudes, lng \in Longitudes }

\* the truth value Python gives a coordinate: None and 0 are false
Truthy(x) == ~x.null /\ x.v # 0
\* bool(lat and lng)
has_geo(lat, lng) == Truthy(lat) /\ Truthy(lng)

Geo ==
    /\ call.fn = "has_geo"
    /\ ~result.done
    /\ LET lat == call.recording.latitude
           lng == call.recording.longitude
       IN  result' = [done |-> TRUE, latitude |-> lat, longitude |-> lng,
                      has_geo |-> has_geo(lat, lng),
                      geo_band |-> GeoBand(has_geo(lat, lng))]
    /\ UNCHANGED << call, runVars, sessVars, envVars >>

InitGeo ==
    /\ IdleRun
    /\ InitSession
    /\ InitEnv
    /\ \E recording \in Recordings : call = [fn |-> "has_geo", recording |-> recording]
    /\ result = NoResult

SpecGeo == InitGeo /\ [][Geo]_vars

\* ------------------------------------------------------- _yt: returned frame
\* det_list = list(all_details.values()); parse_video_data(u, det_list): one
\* row per unique hit, the statistics of a hit without a detail record
\* defaulting to 0. An empty u returns an empty frame.
DetListViews == [x \in DOMAIN all_details |-> 0]
ReturnedFrame == IF u # << >> THEN parse_video_data(u, DetListViews, "api") ELSE << >>

\* ------------------------------------------------------------------ claims
Finished(q) == pc # "search" \/ i > q

\* C1: the paging loop ends: no page is attempted more than N+1 times, the
\* retry budget is never used up, a query issues at most pages x (N+1)
\* search calls, every page of a query but the last has added a hit, and the
\* batch issues at most Q x target x (N+1) search calls.
C1_PagingBounded ==
    /\ page_attempts <= nkeys + 1
    /\ retry < max_retries
    /\ \A q \in 1..nq : qcalls[q] <= qpages[q] * (nkeys + 1)
    /\ pc = "search" => qpages[i] <= fetched_count + 1
    /\ \A q \in 1..nq : qpages[q] <= mpq
    /\ TotalCalls <= nq * mpq * (nkeys + 1)

C1_Witness ==
    /\ pc # "search"
    /\ qpages[1] = 2
    /\ qcalls[1] = 3
    /\ qfails[1] = 1

\* C2: a query that starts on the first credential with the cursor at 0 and
\* whose search calls all end in a quota error advances the cursor once per
\* call, ends after exactly N calls with every credential marked and 'ALL
\* KEYS DEAD' raised, and is given no call after that.
AllQuota(q) == qcalls[q] > 0 /\ qquota[q] = qcalls[q]
           /\ qstart[q] = [cursor |-> 0, key |-> 0]

C2_AllQuotaExhaustsPool ==
    \A q \in 1..nq :
        AllQuota(q) =>
            /\ qmarks[q] = qcalls[q]
            /\ qcalls[q] <= nkeys
            /\ Finished(q) <=> qcalls[q] = nkeys
            /\ Finished(q) => /\ all_keys_dead
                              /\ exhausted = 0..(nkeys - 1)
                              /\ current_key_idx >= nkeys

C2_Witness ==
    /\ nkeys = MaxKeys
    /\ AllQuota(1)
    /\ Finished(1)
    /\ qcalls[1] = nkeys

C4_HardFailureEndsQuery ==
    (lastCall.kind = "search" /\ lastCall.status = "hard")
        => /\ lastCall.ended
           /\ current_key_idx = lastCall.cursor
           /\ active_svc = lastCall.key
           /\ ~all_keys_dead

\* C5: no provider call is made with a credential that an earlier call of
\* the run found quota-exhausted, and none once every credential is
\* exhausted.
C5_NoExhaustedKeyReused ==
    lastCall.kind # "none" => ~lastCall.key_was_exhausted /\ ~lastCall.dead_before

\* C6: the raw hit list holds every hit of every successful page fetch, in
\* order, whatever fails later.
C6_HitsKept == ai = delivered

C6_Witness ==
    /\ pc = "dedup"
    /\ nq = 2
    /\ mpq = MaxTarget
    /\ qcalls[1] = 1
    /\ qfails[1] = 0
    /\ Len(ai) = PageCap
    /\ qfails[2] > 0
    /\ all_keys_dead

\* C7: the deduplicated list holds every non-empty identifier of the raw
\* list exactly once, each by its first hit and in the order of the first
\* hits, and no hit with an empty identifier. Stated of the lists as the
\* dedup loop leaves them (chunk_idx = 0): the detail loop that follows
\* assigns neither ai nor u.
FirstIndex(items, v) ==
    CHOOSE k \in 1..Len(items) :
        /\ VideoIdOf(items[k]) = v
        /\ \A j \in 1..(k - 1) : VideoIdOf(items[j]) # v

C7_DedupFirstSeen ==
    (pc \in {"details", "done"} /\ chunk_idx = 0) =>
        /\ \A n \in 1..Len(u) : VideoIdOf(u[n]) # EmptyId
        /\ { VideoIdOf(u[n]) : n \in 1..Len(u) }
              = { VideoIdOf(ai[k]) : k \in 1..Len(ai) } \ { EmptyId }
        /\ \A n \in 1..Len(u) : u[n] = ai[FirstIndex(ai, VideoIdOf(u[n]))]
        /\ \A n \in 1..(Len(u) - 1) :
              FirstIndex(ai, VideoIdOf(u[n])) < FirstIndex(ai, VideoIdOf(u[n + 1]))

C7_Witness ==
    /\ pc \in {"details", "done"}
    /\ chunk_idx = 0
    /\ \E k \in 1..Len(ai) : VideoIdOf(ai[k]) = EmptyId
    /\ \E j, k \in 1..Len(ai) :
          /\ ai[j].src # ai[k].src
          /\ VideoIdOf(ai[j]) = VideoIdOf(ai[k])
          /\ VideoIdOf(ai[j]) # EmptyId

\* C8: after any sequence of merges into the session collection no two of
\* its records share a video_id.
C8_UniqueIds ==
    \A j, k \in 1..Len(yt_results) :
        j # k => yt_results[j].video_id # yt_results[k].video_id

\* C9: a chunk whose detail call fails is retried exactly once with the
\* next credential of the pool when there is one.
C9_FailedChunkRetried ==
    (lastChunk.idx > 0 /\ lastChunk.failed /\ lastChunk.next_key)
        => lastChunk.retried /\ lastChunk.calls = 2

\* C10: the chunks are ceil(n/50) contiguous slices of the unique list that
\* cover it in order, each of 50 identifiers but possibly the last, and no
\* detail call is given more than 50 identifiers.
C10_Chunking ==
    pc \in {"details", "done"} =>
        LET n == Len(u)
            nc == Len(u_chunks)
        IN  /\ nc * ChunkSize >= n
            /\ (nc - 1) * ChunkSize < n
            /\ \A c \in 1..nc :
                  /\ Len(u_chunks[c]) = (IF c < nc THEN ChunkSize ELSE n - (nc - 1) * ChunkSize)
                  /\ \A k \in 1..Len(u_chunks[c]) : u_chunks[c][k] = u[(c - 1) * ChunkSize + k]
            /\ n = 120 => [c \in 1..nc |-> Len(u_chunks[c])] = << 50, 50, 20 >>
            /\ lastCall.kind = "details" =>
                  /\ lastCall.size <= DetailBatch
                  /\ lastCall.size = Len(u_chunks[lastCall.q])
                  /\ lastChunk.calls = 1

C10_Witness ==
    /\ pc = "done"
    /\ Len(u) = 120
    /\ Len(u_chunks) = 3
    /\ lastCall.kind = "details"
    /\ lastCall.size = 20

\* C11: the frame returned by _yt holds a record only for identifiers whose
\* detail record was resolved.
C11_OnlyResolvedRecorded ==
    pc = "done" =>
        \A k \in 1..Len(ReturnedFrame) : ReturnedFrame[k].video_id \in DOMAIN all_details

\* C12: one malformed raw record in a batch is skipped: no exception leaves
\* the batch and every other record is enriched and returned.
MalformedRecord(d) ==
    ~d.has_id \/ int_(d.viewCount).raised \/ int_(d.likeCount).raised

C12_MalformedSkipped ==
    (/\ call.fn = "enrich"
     /\ result.done
     /\ Cardinality({ k \in 1..Len(call.det) : MalformedRecord(call.det[k]) }) = 1)
        => /\ ~result.raised
           /\ \A k \in 1..Len(call.det) :
                 ~MalformedRecord(call.det[k])
                    => \E r \in 1..Len(result.rows) :
                           result.rows[r].video_id = call.det[k].id

\* C13: the score lies in [0,100] for every input, negative and very large
\* counts included, and a second evaluation on the same input returns the
\* same value.
Scored == call.fn = "compute_weirdness_score" /\ result.done

C14_ViewBandExample ==
    Scored => /\ call.views = 0 => result.bands.views = 30
              /\ call.views = 500 => result.bands.views = 0

\* C14 (as the code has it): the view band gives 30 points for views = 0,
\* 5 points for views = 500 (the band up to 1000) and 0 points only above
\* 1000 views.
C14_ViewBandThresholds ==
    Scored => /\ call.views = 0 => result.bands.views = 30
              /\ call.views = 500 => result.bands.views = 5
              /\ call.views > 1000 => result.bands.views = 0

C14_Witness ==
    /\ Scored
    /\ call.views = 500
    /\ result.bands.views = 5

Filtered == call.fn = "_pf" /\ result.done

Position(df, r) == CHOOSE k \in 1..Len(df) : df[k] = r

IsSubsequence(out, df) ==
    /\ \A k \in 1..Len(out) : \E j \in 1..Len(df) : df[j] = out[k]
    /\ \A j, k \in 1..Len(out) : j < k => Position(df, out[j]) < Position(df, out[k])

Rows(df) == { df[k] : k \in 1..Len(df) }

C17_DefaultsChangeNothing ==
    (Filtered /\ call.on = {} /\ call.mv = 0) => ~result.raised /\ result.df = call.df

\* C18: _pf returns exactly the input records that pass every active stage,
\* and running the active stages in any other order gives the same outcome.
PassesAll(r) ==
    \A k \in 1..Len(ActiveStages(call.kw)) :
        LET stage == ActiveStages(call.kw)[k]
        IN  Compiles(StageText(stage, call.kw)) => StageKeeps(stage, call.mv, call.kw, r)

C18_ConjunctionAnyOrder ==
    Filtered =>
        /\ ~result.raised
        /\ result.df = SelectSeq(call.df, PassesAll)
        /\ \A order \in Orders(ActiveStages(call.kw)) :
              LET other == IF call.df = << >> THEN [raised |-> FALSE, df |-> call.df]
                           ELSE RunStages(order, call.df, call.mv, call.kw)
              IN  other.raised = result.raised /\ other.df = result.df

\* C19: a record merged into a non-empty collection under an identifier
\* that is already there stays at the position the identifier had and
\* carries the field values of the newly merged record.
FirstRow(df, v) == CHOOSE k \in 1..Len(df) : df[k].video_id = v /\ \A j \in 1..(k - 1) : df[j].video_id # v
LastRow(df, v) == CHOOSE k \in 1..Len(df) : df[k].video_id = v /\ \A j \in (k + 1)..Len(df) : df[j].video_id # v

C19_MergeLatestWins ==
    (call.fn = "merge" /\ result.done /\ call.ex # << >>) =>
        \A n \in 1..Len(call.df) :
            LET v == call.df[n].video_id
            IN  (\E k \in 1..Len(call.ex) : call.ex[k].video_id = v)
                   => /\ FirstRow(result.df, v) = FirstRow(call.ex, v)
                      /\ result.df[FirstRow(call.ex, v)] = call.df[LastRow(call.df, v)]

\* C20: the burst detector returns exactly one event for every (channel,
\* publish date) group of at least `threshold` videos and none for a smaller
\* group, the event's count is the size of the group, and the events come
\* in descending order of count.
GroupSize(channel, day) ==
    Cardinality({ k \in 1..Len(call.df) :
                     /\ call.df[k].channel = channel
                     /\ call.df[k].published.valid
                     /\ call.df[k].published.day = day })

EventsOf(channel, day) ==
    { n \in 1..Len(result.events) :
         result.events[n].channel = channel /\ result.events[n].date = day }

C20_BurstPerGroup ==
    (call.fn = "detect_upload_bursts" /\ result.done) =>
        /\ \A channel \in 1..2, day \in 1..2 :
              /\ GroupSize(channel, day) >= call.threshold
                   => /\ Cardinality(EventsOf(channel, day)) = 1
                      /\ \A n \in EventsOf(channel, day) :
                            result.events[n].upload_count = GroupSize(channel, day)
              /\ GroupSize(channel, day) < call.threshold => EventsOf(channel, day) = {}
        /\ \A n \in 1..Len(result.events) :
              result.events[n].channel \in 1..2 /\ result.events[n].date \in 1..2
        /\ \A n \in 1..(Len(result.events) - 1) :
              result.events[n].upload_count >= result.events[n + 1].upload_count

C20_Witness ==
    /\ call.fn = "detect_upload_bursts"
    /\ result.done
    /\ call.threshold = 3
    /\ Len(call.df) = 5
    /\ GroupSize(1, 1) = 5
    /\ Len(result.events) = 1
    /\ result.events[1].upload_count = 5

\* C21: a burst is classed camera-dump when at least 70% of the titles of its
\* group are default filenames, otherwise bot/auto when every title is
\* shorter than 5 characters, otherwise screen-recording when a title
\* contains "screen" or "rec", otherwise bulk-upload.
DefaultTitles(group) ==
    Cardinality({ k \in 1..Len(group) : detect_default_filename(group[k].title) })

C21_BurstClass ==
    (call.fn = "_classify_burst" /\ result.done) =>
        LET g == call.group
            n == Len(g)
        IN  result.burst_type =
              IF 10 * DefaultTitles(g) >= 7 * n THEN "Camera Dump"
              ELSE IF \A k \in 1..n : TitleLen(g[k].title) < 5 THEN "Bot/Auto"
              ELSE IF \E k \in 1..n : ScreenOrRec(g[k].title) THEN "Screen Recordings"
              ELSE "Bulk Upload"

\* C22: the fingerprint of a non-empty channel has score = min(100, sum of
\* the increments of the triggered signals): most common title more than 3
\* times (+25), at least 50% of the titles with a run of 3 or more digits
\* (+20), at least 50% of the titles shorter than 5 characters (+15), at most
\* 3 distinct durations among more than 5 videos (+20), more than 80% of the
\* uploads in the same hour (+15), more than 80% default filenames (+15);
\* the label is bot/automated from 60, semi-automated from 30, else human.
C22_FingerprintScore ==
    (call.fn = "fingerprint_upload_pattern" /\ result.done /\ call.df # << >>) =>
        LET df == call.df
            n == Len(df)
            titles == [k \in 1..n |-> df[k].title]
            numbered == Cardinality({ k \in 1..n : Numbered(titles[k]) })
            short == Cardinality({ k \in 1..n : ShortTitle(titles[k]) })
            known == { k \in 1..n : df[k].upload_hour >= 0 }
            same_hour(h) == Cardinality({ k \in known : df[k].upload_hour = h })
            defaults == Cardinality({ k \in 1..n : df[k].is_default_filename })
            sum == (IF MostCommonCount(titles) > 3 THEN 25 ELSE 0)
                     + (IF 2 * numbered >= n THEN 20 ELSE 0)
                     + (IF 2 * short >= n THEN 15 ELSE 0)
                     + (IF Cardinality({ df[k].duration_seconds : k \in 1..n }) <= 3 /\ n > 5
                        THEN 20 ELSE 0)
                     + (IF \E h \in 0..23 : 100 * same_hour(h) > 80 * Cardinality(known)
                        THEN 15 ELSE 0)
                     + (IF 100 * defaults > 80 * n THEN 15 ELSE 0)
            score == Min(100, sum)
        IN  /\ result.print.score = score
            /\ result.print.pattern =
                 IF score >= 60 THEN "BOT/AUTOMATED"
                 ELSE IF score >= 30 THEN "SEMI-AUTOMATED" ELSE "HUMAN"

\* C23: an enriched record has ageDays = max(0, whole days from the publish
\* timestamp to now): never negative, also for a publish timestamp later
\* than now, and 0 without a timestamp; viewsPerDay = views / max(ageDays, 1).
C23_AgeNeverNegative ==
    (call.fn = "age_days" /\ result.done) =>
        LET whole == IF call.published.valid
                     THEN Days(call.now - published_dt(call.published, call.source))
                     ELSE 0
        IN  /\ result.age_days >= 0
            /\ result.age_days = Max(0, whole)
            /\ result.views_per_day = Round4(call.views, Max(result.age_days, 1))

\* C24: once the caller has asked the batch to stop, _yt issues no further
\* search call and the raw hit list stays what had been accumulated.
C24_CancelStopsCalls ==
    [][cancel_requested => (TotalCalls' = TotalCalls /\ ai' = ai)]_vars

\* C25: detect_title_scripts returns exactly the script families of which the
\* title has at least one character; the title is flagged mixed-script iff
\* at least 2 families are present and non-Latin iff Latin is absent and at
\* least 1 other family is present. The family of a character is its
\* Unicode script: the Latin letters include the accented letters of Latin-1
\* Supplement and Latin Extended (U+00C0..U+024F without the two signs) and
\* the fullwidth letters.
FamilyOf(c) ==
    IF InRanges(c, { << 65, 90 >>, << 97, 122 >>, << 192, 214 >>, << 216, 246 >>,
                     << 248, 591 >>, << 65313, 65338 >>, << 65345, 65370 >> })
    THEN "Latin"
    ELSE IF \E k \in 1..Len(SCRIPT_PATTERNS) : InRanges(c, SCRIPT_PATTERNS[k].ranges)
    THEN SCRIPT_PATTERNS[CHOOSE k \in 1..Len(SCRIPT_PATTERNS) :
                            InRanges(c, SCRIPT_PATTERNS[k].ranges)].name
    ELSE "none"

FamiliesIn(title) == { FamilyOf(title[k]) : k \in 1..Len(title) } \ { "none" }

C25_ScriptFamilies ==
    (call.fn = "detect_title_scripts" /\ result.done) =>
        LET present == FamiliesIn(call.title)
            returned == { result.title_scripts[k] : k \in 1..Len(result.title_scripts) }
        IN  /\ returned = present
            /\ Len(result.title_scripts) = Cardinality(returned)
            /\ result.is_mixed_script <=> Cardinality(present) >= 2
            /\ result.is_non_latin <=> ("Latin" \notin present /\ Cardinality(present) >= 1)

\* C26: detect_metadata_anomalies returns one tag for each triggered
\* condition, no two tags alike and no other tag: location inside a listed
\* bounding box; hd with age > 5475 days; upload hour in 3..5; title longer
\* than 200; more than 500 description words with views < 10; more than 20
\* tags with views < 5; duration of exactly 1 second; duration above 43200
\* seconds. A record that triggers none gets an empty list.
Inside(row) ==
    /\ row.location.present
    /\ \E k \in 1..6 :
          LET box == (OCEAN_COORDS \o EXTREME_LOCATIONS)[k]
          IN  /\ row.location.lat \in box.lat_range[1]..box.lat_range[2]
              /\ row.location.lng \in box.lng_range[1]..box.lng_range[2]

Triggered(row) ==
    { c \in { "GEO", "ERA", "TIME", "TITLE", "DESC", "TAG", "DUR1", "DURLONG" } :
        \/ c = "GEO" /\ Inside(row)
        \/ c = "ERA" /\ row.definition = "hd" /\ row.age_days > 5475
        \/ c = "TIME" /\ row.upload_hour \in 3..5
        \/ c = "TITLE" /\ row.title_len > 200
        \/ c = "DESC" /\ row.desc_word_count > 500 /\ row.views < 10
        \/ c = "TAG" /\ row.tag_count > 20 /\ row.views < 5
        \/ c = "DUR1" /\ row.duration_seconds = 1
        \/ c = "DURLONG" /\ row.duration_seconds > 43200 }

ConditionOf(tag) ==
    CASE tag.text \in { "GEO_ANOMALY:Mid-Atlantic", "GEO_ANOMALY:Mid-Pacific",
                        "GEO_ANOMALY:Indian Ocean", "GEO_ANOMALY:Antarctica",
                        "GEO_ANOMALY:Arctic", "GEO_ANOMALY:Sahara Desert" } -> "GEO"
      [] tag.text = "ERA_MISMATCH:HD_before_HD_era" -> "ERA"
      [] tag.text = "TIME_ANOMALY:uploaded_3-5AM" -> "TIME"
      [] tag.text = "TITLE_ANOMALY:very_long" -> "TITLE"
      [] tag.text = "DESC_ANOMALY:huge_desc_no_views" -> "DESC"
      [] tag.text = "TAG_ANOMALY:many_tags_no_views" -> "TAG"
      [] tag.text = "DUR_ANOMALY:1_second" -> "DUR1"
      [] tag.text = "DUR_ANOMALY:marathon" -> "DURLONG"
      [] OTHER -> "unknown"

C26_OneTagPerCondition ==
    (call.fn = "detect_metadata_anomalies" /\ result.done) =>
        LET tags == result.anomalies
        IN  /\ { ConditionOf(tags[k]) : k \in 1..Len(tags) } = Triggered(call.row)
            /\ Len(tags) = Cardinality(Triggered(call.row))
            /\ \A j, k \in 1..Len(tags) : j # k => tags[j] # tags[k]
            /\ Triggered(call.row) = {} => tags = << >>

C26_Witness ==
    /\ call.fn = "detect_metadata_anomalies"
    /\ result.done
    /\ Len(result.anomalies) = 7
    /\ call.row.location.lat = 30
    /\ call.row.location.lng = -20
    /\ ConditionOf(result.anomalies[1]) = "GEO"

\* C27: the credential cursor of _yt never decreases and is not reset
\* between the queries of a batch, it advances by exactly one per quota
\* failure, and every provider call made while the cursor is below the pool
\* size uses the pool entry at the cursor.
C27_CursorInPoolOrder ==
    /\ []((lastCall.kind # "none" /\ lastCall.cursor < nkeys)
            => lastCall.key = lastCall.cursor)
    /\ [][/\ current_key_idx' >= current_key_idx
          /\ current_key_idx' <= current_key_idx + 1
          /\ (pc = "search" /\ lastCall'.status = "quota")
                => current_key_idx' = current_key_idx + 1]_vars

\* C28: every search call of a query requests min(50, target - accumulated)
\* results, a value between 1 and 50; no search call is issued for a query
\* whose accumulated hits have reached the target; and, the provider
\* returning at most what was requested, a query adds at most target hits
\* to the raw list.
HitsOfQuery(q) == Cardinality({ k \in 1..Len(ai) : ai[k].src = q })

C28_PageSizeWithinTarget ==
    /\ lastCall.kind = "search" =>
          LET before == HitsOfQuery(lastCall.q)
                          - (IF lastCall.status = "ok" THEN lastCall.nhits ELSE 0)
          IN  /\ before < mpq
              /\ lastCall.size = Min(50, mpq - before)
              /\ lastCall.size \in 1..50
              /\ lastCall.nhits <= lastCall.size
    /\ \A q \in 1..nq : HitsOfQuery(q) <= mpq

C28_Witness ==
    /\ lastCall.kind = "search"
    /\ lastCall.status = "ok"
    /\ mpq = MaxTarget
    /\ lastCall.size = MaxTarget - PageCap
    /\ lastCall.nhits = lastCall.size
    /\ HitsOfQuery(lastCall.q) = mpq

\* C29: a record whose detail carries a location with latitude and longitude
\* both non-null has has_geo = true and gets the 3 points of the geolocation
\* band, whatever the coordinates (latitude 0 and longitude 0 included); a
\* record without a location has has_geo = false and gets 0 from the band.
C29_GeoWhenLocated ==
    (call.fn = "has_geo" /\ result.done) =>
        LET r == call.recording
            located == r.location /\ ~r.latitude.null /\ ~r.longitude.null
        IN  /\ located => (result.has_geo /\ result.geo_band = 3)
            /\ ~r.location => (~result.has_geo /\ result.geo_band = 0)

\* C30: after render_search has run a search, the session collection is in
\* order of non-increasing weirdness score, whichever sources were switched
\* on.
C30_RankedAfterSearch ==
    last_merge.op = "render_search" =>
        \A k \in 1..(Len(yt_results) - 1) :
            yt_results[k].weirdness_score >= yt_results[k + 1].weirdness_score

====
